---- MODULE Spec2Model ----
(***************************************************************************)
(* Model of src/app.py: the solar dashboard's simulation (load_pvgis_data) *)
(* and the snapshot queries of main().                                     *)
(*                                                                         *)
(* Units.  Energy is counted in micro-kWh (1 kWh = 1000000), irradiance in *)
(* W/m^2, so every quantity of the program is an exact integer:            *)
(*   7.2 kWh = 7200000, 1.44 kWh = 1440000, 0.3 kWh = 300000,              *)
(*   0.01 kWh = 10000, and irradiance/1000 * 1.3 * 0.18 kWh                *)
(*   = irradiance * 13 * 18 micro-kWh.                                     *)
(* The program computes in IEEE doubles; the model computes exactly, so    *)
(* the rounding of a double sum or difference (at most an ulp of the       *)
(* level, about 1e-15 kWh) is outside it.                                  *)
(* Time is counted in half hours since START_DATE, so the hourly rows sit  *)
(* at 0, 2, 4, ... and a wall clock can fall between two rows.             *)
(***************************************************************************)
EXTENDS Integers, Sequences, FiniteSets, TLC

\* ---------------------------------------------------------------- bounds
\* Rows of the simulated timeline (the program has 5136; the model is
\* bounded): the length is any of 1..ShortRows, or MaxRows.
MaxRows == 140
ShortRows == 26
\* How far (in half hours) the wall clock may lie outside the timeline.
QueryPad == 6
\* Bounds of the index and window operations applied to arbitrary arguments.
MaxIndexRows == 4
MaxWindowHours == 3

\* ------------------------------------------------------ program constants
CAPACITY_KWP == 13                \* 1.3 kWp, in tenths
PANEL_FACTOR == 18                \* the 0.18 factor, in hundredths
BATTERY_CAPACITY_KWH == 7200000   \* 7.2 kWh
MIN_BATTERY_KWH == 1440000        \* 1.44 kWh
LOAD_KW == 300000                 \* 0.3 kWh per full load hour
LOAD_START_HOUR == 16
LOAD_PARTIAL_HOUR == 20
DEAD_BAND == 10000                \* the 0.01 kWh threshold of the flags
HOUR == 2                         \* one hour, in half hours (freq='H')
HOURS_PER_DAY == 24
DAYS_PER_YEAR == 365
START_DAY_OF_YEAR == 303          \* 2025-10-30
PAST_DAY_HOURS == 23              \* timedelta(hours=23)

\* ----------------------------------------------------------------- state
VARIABLES
  pc,                  \* where the script is
  cfg,                 \* the module constants the simulation reads
  horizon,             \* len(df): number of hourly rows START_DATE..END_DATE
  index,               \* df.index
  energy_generated,    \* df['Energy Generated (kWh)']
  load_consumption,    \* df['Load Consumption (kWh)']
  battery_level,       \* the local list battery_level
  power_flow,          \* the local list power_flow
  col_battery_level,   \* df['Battery Level (kWh)']
  col_power_flow,      \* df['Battery Power Flow (kWh)']
  is_charging,         \* df['Is Charging']
  is_using,            \* df['Is Using Battery']
  now_ist,             \* main(): now_ist
  query_time,          \* main(): current_time_dt as first computed (line 188)
  current_time_dt,     \* main(): current_time_dt after lines 197-214
  current_time_index,  \* main(): current_time_index (0-based)
  warning,             \* whether st.warning was issued (line 205)
  start_day,           \* main(): start_day
  past_day_rows,       \* len(past_day_df)
  past_day_generation, \* main(): past_day_generation
  battery_status_text  \* main(): battery_status_text

vars == <<pc, cfg, horizon, index, energy_generated, load_consumption,
          battery_level, power_flow, col_battery_level, col_power_flow,
          is_charging, is_using, now_ist, query_time, current_time_dt,
          current_time_index, warning, start_day, past_day_rows,
          past_day_generation, battery_status_text>>

simVars == <<cfg, horizon, index, energy_generated, load_consumption,
             battery_level, power_flow, col_battery_level, col_power_flow,
             is_charging, is_using>>

dashVars == <<now_ist, query_time, current_time_dt, current_time_index,
              warning, start_day, past_day_rows, past_day_generation,
              battery_status_text>>

\* --------------------------------------------------------------- helpers
Abs(x) == IF x < 0 THEN -x ELSE x

RECURSIVE SumSeq(_)
SumSeq(s) == IF s = <<>> THEN 0 ELSE Head(s) + SumSeq(Tail(s))

\* The configuration as shipped (lines 13-14).
ShippedConfig ==
  [capacity |-> BATTERY_CAPACITY_KWH, min |-> MIN_BATTERY_KWH]

\* pd.date_range(start, end, freq='H'): row i (1-based) is i-1 hours in.
DateRange(n) == [i \in 1..n |-> (i - 1) * HOUR]

\* df.index.hour and df.index.dayofyear of a timestamp at or after START_DATE.
HourOf(t) == (t \div HOUR) % HOURS_PER_DAY
DayOfYearOf(t) ==
  ((START_DAY_OF_YEAR - 1 + (t \div HOUR) \div HOURS_PER_DAY) % DAYS_PER_YEAR) + 1

\* The irradiance profiles the CSV may yield, as mean W/m^2 per
\* (DayOfYear, Hour).  A profile is a function on the keys it observed.
DaylightHours == 6..17
ProfileKeys ==
  {<<d, h>> : d \in START_DAY_OF_YEAR..(START_DAY_OF_YEAR + 6), h \in 0..23}
SunnyProfile ==
  [k \in ProfileKeys |-> IF k[2] \in DaylightHours THEN 500 ELSE 0]
DimProfile ==
  [k \in ProfileKeys |-> IF k[2] \in DaylightHours THEN 40 ELSE 0]
\* Sun on the first two days only (no later key was observed), and a
\* negative artefact at night.
FadingProfile ==
  [k \in {<<d, h>> : d \in START_DAY_OF_YEAR..(START_DAY_OF_YEAR + 1),
                     h \in 0..23} |->
     IF k[2] \in DaylightHours THEN 900 ELSE -5]
\* Four dark days, then sun.
LateSunProfile ==
  [k \in ProfileKeys |->
     IF k[2] \in DaylightHours /\ k[1] >= START_DAY_OF_YEAR + 4
       THEN 700 ELSE 0]
EmptyProfile == [k \in {} |-> 0]
Profiles ==
  {SunnyProfile, DimProfile, FadingProfile, LateSunProfile, EmptyProfile}

\* pvgis_profile.reindex(map_index, fill_value=0.0)
Reindex(profile, t) ==
  LET key == <<DayOfYearOf(t), HourOf(t)>>
  IN IF key \in DOMAIN profile THEN profile[key] ELSE 0

\* (irradiance * CAPACITY_KWP * 0.18).clip(lower=0)
EnergyGenerated(irradiance) ==
  LET e == irradiance * CAPACITY_KWP * PANEL_FACTOR
  IN IF e < 0 THEN 0 ELSE e

\* Load: LOAD_KW for hours 16..19, LOAD_KW * 0.5 for hour 20, else 0.
LoadConsumption(hour) ==
  IF hour = LOAD_PARTIAL_HOUR THEN LOAD_KW \div 2
  ELSE IF hour >= LOAD_START_HOUR /\ hour < LOAD_PARTIAL_HOUR THEN LOAD_KW
  ELSE 0

INITIAL_BATTERY_LEVEL(c) == c.capacity

\* Variants of the loop body, each with one slip.
\* The floor branch (lines 92-95) left out.
BatteryStepNoFloor(current_level, generation, load, c) ==
  LET net_energy == generation - load
      new_level == current_level + net_energy
  IN IF new_level > c.capacity
       THEN [new_level |-> c.capacity,
             battery_change |-> net_energy - (new_level - c.capacity)]
     ELSE [new_level |-> new_level, battery_change |-> net_energy]
\* The level clamped but the raw net energy recorded as the flow.
BatteryStepRawFlow(current_level, generation, load, c) ==
  LET net_energy == generation - load
      new_level == current_level + net_energy
  IN IF new_level > c.capacity
       THEN [new_level |-> c.capacity, battery_change |-> net_energy]
     ELSE IF new_level < c.min
       THEN [new_level |-> c.min, battery_change |-> net_energy]
     ELSE [new_level |-> new_level, battery_change |-> net_energy]
\* The deficit subtracted instead of added (line 95).
BatteryStepDeficitSign(current_level, generation, load, c) ==
  LET net_energy == generation - load
      new_level == current_level + net_energy
  IN IF new_level > c.capacity
       THEN [new_level |-> c.capacity,
             battery_change |-> net_energy - (new_level - c.capacity)]
     ELSE IF new_level < c.min
       THEN [new_level |-> c.min,
             battery_change |-> net_energy - (c.min - new_level)]
     ELSE [new_level |-> new_level, battery_change |-> net_energy]
\* The excess assigned instead of subtracted (line 91).
BatteryStepExcessAssigned(current_level, generation, load, c) ==
  LET net_energy == generation - load
      new_level == current_level + net_energy
  IN IF new_level > c.capacity
       THEN [new_level |-> c.capacity,
             battery_change |-> 0 - (new_level - c.capacity)]
     ELSE IF new_level < c.min
       THEN [new_level |-> c.min,
             battery_change |-> net_energy + (c.min - new_level)]
     ELSE [new_level |-> new_level, battery_change |-> net_energy]

\* One iteration of the battery loop (lines 80-98): the new level and the
\* applied battery change.
BatteryStep(current_level, generation, load, c) ==
  LET net_energy == generation - load
      new_level == current_level + net_energy
  IN IF new_level > c.capacity
       THEN LET excess == new_level - c.capacity
            IN [new_level |-> c.capacity, battery_change |-> net_energy - excess]
     ELSE IF new_level < c.min
       THEN LET deficit == c.min - new_level
            IN [new_level |-> c.min, battery_change |-> net_energy + deficit]
     ELSE [new_level |-> new_level, battery_change |-> net_energy]

\* The list the loop leaves in power_flow, padded to the frame's length.
PowerFlowColumn(flows) == flows \o <<0>>

IsCharging(flow) == flow > DEAD_BAND
\* The threshold of the discharging flag without its sign.
IsUsingBatteryUnsigned(flow) == flow < DEAD_BAND
IsUsingBattery(flow) == flow < -DEAD_BAND

\* idxmin taking the last of the equally near rows.
IdxMinLast(idx, t) ==
  LET last == CHOOSE p \in DOMAIN idx :
                \A q \in DOMAIN idx :
                  \/ Abs(idx[p] - t) < Abs(idx[q] - t)
                  \/ Abs(idx[p] - t) = Abs(idx[q] - t) /\ p >= q
  IN idx[last]

\* (df.index.to_series() - t).abs().idxmin(): the label of the first row
\* among those holding the smallest distance.
IdxMin(idx, t) ==
  LET first == CHOOSE p \in DOMAIN idx :
                 \A q \in DOMAIN idx :
                   \/ Abs(idx[p] - t) < Abs(idx[q] - t)
                   \/ Abs(idx[p] - t) = Abs(idx[q] - t) /\ p <= q
  IN idx[first]

\* df.index.get_loc(label): the 0-based position of a label.
GetLoc(idx, label) == (CHOOSE p \in DOMAIN idx : idx[p] = label) - 1

\* The range test of line 197 without its second half.
NearestNoEndTest(idx, t) ==
  IF t < idx[1]
    THEN [current_time_index |-> 0, current_time_dt |-> idx[1],
          warning |-> TRUE]
    ELSE LET i == GetLoc(idx, IdxMin(idx, t))
         IN [current_time_index |-> i, current_time_dt |-> idx[i + 1],
             warning |-> FALSE]

\* Lines 197-214: the row for a wall-clock hour t on a non-empty index.
Nearest(idx, t) ==
  IF t < idx[1] \/ t > idx[Len(idx)]
    THEN LET i == IF t < idx[1] THEN 0 ELSE Len(idx) - 1
         IN [current_time_index |-> i, current_time_dt |-> idx[i + 1],
             warning |-> TRUE]
    ELSE LET i == GetLoc(idx, IdxMin(idx, t))
         IN [current_time_index |-> i, current_time_dt |-> idx[i + 1],
             warning |-> FALSE]

\* df.loc[start:stop] on the sorted index: the positions from
\* searchsorted(start, 'left') up to searchsorted(stop, 'right').
SearchSorted(idx, t, side) ==
  Cardinality({p \in DOMAIN idx :
                 IF side = "left" THEN idx[p] < t ELSE idx[p] <= t})
\* The slice taken half open, as a positional slice would be.
LocSliceHalfOpen(idx, column, start, stop) ==
  SubSeq(column, SearchSorted(idx, start, "left") + 1,
                 SearchSorted(idx, stop, "left"))
LocSlice(idx, column, start, stop) ==
  SubSeq(column, SearchSorted(idx, start, "left") + 1,
                 SearchSorted(idx, stop, "right"))

\* now_ist.replace(minute=0, second=0, microsecond=0)
TruncateToHour(t) == (t \div HOUR) * HOUR

\* Line 229.
BatteryStatusText(charging, using) ==
  IF charging THEN "Charging" ELSE IF using THEN "Discharging" ELSE "Idle"

\* ------------------------------------------------------------------ Init
NoDash ==
  /\ now_ist = 0
  /\ query_time = 0
  /\ current_time_dt = 0
  /\ current_time_index = 0
  /\ warning = FALSE
  /\ start_day = 0
  /\ past_day_rows = 0
  /\ past_day_generation = 0
  /\ battery_status_text = "none"

NoFrame ==
  /\ index = <<>>
  /\ energy_generated = <<>>
  /\ load_consumption = <<>>
  /\ battery_level = <<>>
  /\ power_flow = <<>>
  /\ col_battery_level = <<>>
  /\ col_power_flow = <<>>
  /\ is_charging = <<>>
  /\ is_using = <<>>

Init ==
  /\ pc = "start"
  /\ cfg = ShippedConfig
  /\ horizon \in (1..ShortRows) \cup {MaxRows}
  /\ NoFrame
  /\ NoDash

\* --------------------------------------------------------------- actions
\* Lines 25-77: the CSV is read, the frame is laid out and the loop's lists
\* are initialised.
LoadData(profile) ==
  /\ pc = "start"
  /\ pc' = "sim"
  /\ LET df_index == DateRange(horizon)
     IN /\ index' = df_index
        /\ energy_generated' =
             [i \in 1..horizon |->
                EnergyGenerated(Reindex(profile, df_index[i]))]
        /\ load_consumption' =
             [i \in 1..horizon |-> LoadConsumption(HourOf(df_index[i]))]
  /\ battery_level' = <<INITIAL_BATTERY_LEVEL(cfg)>>
  /\ power_flow' = <<>>
  /\ UNCHANGED <<cfg, horizon, col_battery_level, col_power_flow,
                 is_charging, is_using>>
  /\ UNCHANGED dashVars

\* Lines 108-110: any exception of the try block yields an empty frame.
LoadError ==
  /\ pc = "start"
  /\ pc' = "empty"
  /\ UNCHANGED simVars
  /\ UNCHANGED dashVars

\* Lines 79-98: one iteration of the loop, for i = len(power_flow).
BatteryLoop ==
  /\ pc = "sim"
  /\ Len(power_flow) < horizon - 1
  /\ LET i == Len(power_flow) + 1
         r == BatteryStep(battery_level[Len(battery_level)],
                          energy_generated[i], load_consumption[i], cfg)
     IN /\ battery_level' = Append(battery_level, r.new_level)
        /\ power_flow' = Append(power_flow, r.battery_change)
  /\ UNCHANGED <<pc, cfg, horizon, index, energy_generated, load_consumption,
                 col_battery_level, col_power_flow, is_charging, is_using>>
  /\ UNCHANGED dashVars

\* Lines 100-106: the loop is over; the lists become columns.
FinishLoad ==
  /\ pc = "sim"
  /\ Len(power_flow) = horizon - 1
  /\ pc' = "loaded"
  /\ col_battery_level' = battery_level
  /\ col_power_flow' = PowerFlowColumn(power_flow)
  /\ is_charging' =
       [i \in 1..horizon |-> IsCharging(PowerFlowColumn(power_flow)[i])]
  /\ is_using' =
       [i \in 1..horizon |-> IsUsingBattery(PowerFlowColumn(power_flow)[i])]
  /\ battery_level' = <<>>
  /\ power_flow' = <<>>
  /\ UNCHANGED <<cfg, horizon, index, energy_generated, load_consumption>>
  /\ UNCHANGED dashVars

\* Lines 192-193: an empty frame stops the script.
Stop ==
  /\ pc = "empty"
  /\ pc' = "stopped"
  /\ UNCHANGED simVars
  /\ UNCHANGED dashVars

\* Lines 184-230: one rendering of the snapshot at wall-clock time now.
Snapshot(now) ==
  /\ pc = "loaded"
  /\ pc' = "shown"
  /\ \E t \in {TruncateToHour(now)} :
     \E n \in {Nearest(index, t)} :
     \E start \in {n.current_time_dt - PAST_DAY_HOURS * HOUR} :
     \E past_day_df \in
          {LocSlice(index, energy_generated, start, n.current_time_dt)} :
        /\ now_ist' = now
        /\ query_time' = t
        /\ current_time_index' = n.current_time_index
        /\ current_time_dt' = n.current_time_dt
        /\ warning' = n.warning
        /\ start_day' = start
        /\ past_day_rows' = Len(past_day_df)
        /\ past_day_generation' = SumSeq(past_day_df)
        /\ battery_status_text' =
             BatteryStatusText(is_charging[n.current_time_index + 1],
                               is_using[n.current_time_index + 1])
  /\ UNCHANGED simVars

\* Lines 309-310: the script reruns; the cached frame is reused.
Rerun ==
  /\ pc = "shown"
  /\ pc' = "loaded"
  /\ now_ist' = 0
  /\ query_time' = 0
  /\ current_time_dt' = 0
  /\ current_time_index' = 0
  /\ warning' = FALSE
  /\ start_day' = 0
  /\ past_day_rows' = 0
  /\ past_day_generation' = 0
  /\ battery_status_text' = "none"
  /\ UNCHANGED simVars

ClockTimes == (0 - QueryPad)..((horizon - 1) * HOUR + QueryPad)

Next ==
  \/ \E profile \in Profiles : LoadData(profile)
  \/ LoadError
  \/ BatteryLoop
  \/ FinishLoad
  \/ Stop
  \/ \E now \in ClockTimes : Snapshot(now)
  \/ Rerun

Spec == Init /\ [][Next]_vars

\* ------------------------------------- the simulation under other constants
\* The module constants of lines 13-14 are the whole configuration; the
\* simulation reads them and nothing checks them.  ConfigInit starts the
\* same script with the constants as shipped or exchanged.
Configs ==
  {ShippedConfig,
   [capacity |-> MIN_BATTERY_KWH, min |-> BATTERY_CAPACITY_KWH]}

ConfigInit ==
  /\ pc = "start"
  /\ cfg \in Configs
  /\ horizon \in (1..ShortRows) \cup {MaxRows}
  /\ NoFrame
  /\ NoDash

SpecConfig == ConfigInit /\ [][Next]_vars

\* --------------------------------- the queries applied to arbitrary arguments
\* Lines 197-214 and 223-225 as operations on a frame, given any query time
\* (also one between two rows) and any window length.
FieldValues == {0, 1, 3}
IndexTimes == (0 - HOUR)..(MaxIndexRows * HOUR + 1)

IndexInit ==
  /\ pc = "index"
  /\ cfg = ShippedConfig
  /\ horizon \in 1..MaxIndexRows
  /\ index = DateRange(horizon)
  /\ energy_generated \in [1..horizon -> FieldValues]
  /\ load_consumption = <<>>
  /\ battery_level = <<>>
  /\ power_flow = <<>>
  /\ col_battery_level = <<>>
  /\ col_power_flow = <<>>
  /\ is_charging = <<>>
  /\ is_using = <<>>
  /\ NoDash

NearestQuery(t) ==
  /\ pc = "index"
  /\ pc' = "nearest"
  /\ \E n \in {Nearest(index, t)} :
        /\ query_time' = t
        /\ current_time_index' = n.current_time_index
        /\ current_time_dt' = n.current_time_dt
        /\ warning' = n.warning
  /\ UNCHANGED <<now_ist, start_day, past_day_rows, past_day_generation,
                 battery_status_text>>
  /\ UNCHANGED simVars

WindowQuery(endTime, hours) ==
  /\ pc = "index"
  /\ pc' = "window"
  /\ \E start \in {endTime - hours * HOUR} :
     \E rows \in {LocSlice(index, energy_generated, start, endTime)} :
        /\ current_time_dt' = endTime
        /\ start_day' = start
        /\ past_day_rows' = Len(rows)
        /\ past_day_generation' = SumSeq(rows)
  /\ UNCHANGED <<now_ist, query_time, current_time_index, warning,
                 battery_status_text>>
  /\ UNCHANGED simVars

IndexNext ==
  \/ \E t \in IndexTimes : NearestQuery(t)
  \/ \E endTime \in IndexTimes, hours \in 0..MaxWindowHours :
       WindowQuery(endTime, hours)

SpecQueries == (Init \/ IndexInit) /\ [][Next \/ IndexNext]_vars

\* ================================================================ claims
\* The frame as far as it is known: the loop's lists while it runs, the
\* columns once they are assigned.
Levels == IF pc = "sim" THEN battery_level ELSE col_battery_level
Flows == IF pc = "sim" THEN power_flow ELSE col_power_flow
Loaded == pc \in {"loaded", "shown"}
\* The intervals a loop iteration has been run for.
SteppedRows ==
  IF pc = "sim" THEN 1..Len(power_flow)
  ELSE IF Loaded THEN 1..(horizon - 1)
  ELSE {}
NetEnergy(i) == energy_generated[i] - load_consumption[i]
Proposed(i) == Levels[i] + NetEnergy(i)

RECURSIVE SumRows(_, _)
SumRows(column, rows) ==
  IF rows = {} THEN 0
  ELSE LET r == CHOOSE x \in rows : TRUE
       IN column[r] + SumRows(column, rows \ {r})

\* C1: every recorded battery level, on every row and at every point of the
\* loop, lies within [MIN_BATTERY_KWH, BATTERY_CAPACITY_KWH]; generation and
\* load are never negative.
C1_LevelWithinBounds ==
  /\ \A i \in DOMAIN Levels :
       cfg.min <= Levels[i] /\ Levels[i] <= cfg.capacity
  /\ \A i \in DOMAIN energy_generated : energy_generated[i] >= 0
  /\ \A i \in DOMAIN load_consumption : load_consumption[i] >= 0
  /\ Loaded => Len(col_battery_level) = horizon
\* A finished timeline that has been both full and at the floor.
C1_Witness ==
  /\ pc = "loaded"
  /\ \E i \in DOMAIN col_battery_level : col_battery_level[i] = cfg.min
  /\ \E i \in DOMAIN col_battery_level :
       i > 1 /\ col_battery_level[i] = cfg.capacity

C4_TransitionRule ==
  \A i \in SteppedRows :
    IF Proposed(i) > cfg.capacity
      THEN /\ Levels[i + 1] = cfg.capacity
           /\ Flows[i] = NetEnergy(i) - (Proposed(i) - cfg.capacity)
    ELSE IF Proposed(i) < cfg.min
      THEN /\ Levels[i + 1] = cfg.min
           /\ Flows[i] = NetEnergy(i) + (cfg.min - Proposed(i))
    ELSE /\ Levels[i + 1] = Proposed(i)
         /\ Flows[i] = NetEnergy(i)
\* A finished timeline on which all three branches of the rule were taken.
C4_Witness ==
  /\ pc = "loaded"
  /\ \E i \in SteppedRows : Proposed(i) > cfg.capacity
  /\ \E i \in SteppedRows : Proposed(i) < cfg.min
  /\ \E i \in SteppedRows :
       /\ NetEnergy(i) # 0
       /\ Proposed(i) <= cfg.capacity
       /\ Proposed(i) >= cfg.min

Answered == pc \in {"shown", "nearest"}

\* C5: a query time before the first row yields index 0, one after the last
\* row yields the last index; the warning is raised in exactly these cases,
\* and the query goes on with the boundary row.
C5_BoundaryClamp ==
  Answered =>
    /\ query_time < index[1] => current_time_index = 0 /\ warning
    /\ query_time > index[Len(index)] =>
         current_time_index = Len(index) - 1 /\ warning
    /\ warning => query_time < index[1] \/ query_time > index[Len(index)]
    /\ warning => current_time_dt = index[current_time_index + 1]
    /\ pc = "shown" =>
         battery_status_text \in {"Charging", "Discharging", "Idle"}
\* The dashboard, asked for an hour past the end of a timeline of several rows.
C5_Witness ==
  /\ pc = "shown"
  /\ warning
  /\ horizon > 1
  /\ query_time > index[horizon]
  /\ current_time_index = horizon - 1

\* C6: a query time within the timeline yields the row nearest in time; the
\* earlier row when two are equally near, the row itself when the time is a
\* row's timestamp.
C6_NearestRow ==
  (Answered /\ query_time >= index[1] /\ query_time <= index[Len(index)]) =>
    /\ current_time_index \in 0..(Len(index) - 1)
    /\ current_time_dt = index[current_time_index + 1]
    /\ \A j \in DOMAIN index :
         Abs(current_time_dt - query_time) <= Abs(index[j] - query_time)
    /\ \A j \in DOMAIN index :
         j < current_time_index + 1 =>
           Abs(current_time_dt - query_time) < Abs(index[j] - query_time)
    /\ (\E j \in DOMAIN index : index[j] = query_time) =>
         current_time_dt = query_time
\* A query time half way between two rows, answered with the earlier one.
C6_Witness ==
  /\ pc = "nearest"
  /\ ~warning
  /\ current_time_index + 2 \in DOMAIN index
  /\ query_time - index[current_time_index + 1] =
       index[current_time_index + 2] - query_time

Windowed == pc \in {"shown", "window"}

\* C7: the window sum is the sum of the field over exactly the rows with
\* start <= timestamp <= end, 0 when there are none; on the dashboard the
\* window is the 23 hours up to the shown row and holds min(index+1, 24) rows.
C7_WindowSum ==
  Windowed =>
    LET rows == {i \in DOMAIN index :
                   start_day <= index[i] /\ index[i] <= current_time_dt}
    IN /\ past_day_generation = SumRows(energy_generated, rows)
       /\ past_day_rows = Cardinality(rows)
       /\ rows = {} => past_day_generation = 0
       /\ pc = "shown" =>
            /\ start_day = current_time_dt - PAST_DAY_HOURS * HOUR
            /\ current_time_dt = index[current_time_index + 1]
            /\ past_day_rows =
                 IF current_time_index + 1 < PAST_DAY_HOURS + 1
                   THEN current_time_index + 1 ELSE PAST_DAY_HOURS + 1
\* The dashboard on a row late enough for a full window that has generation.
C7_Witness ==
  /\ pc = "shown"
  /\ current_time_index > PAST_DAY_HOURS
  /\ past_day_rows = PAST_DAY_HOURS + 1
  /\ past_day_generation > 0

C9_FlagsExclusive ==
  /\ Loaded =>
       \A i \in 1..horizon :
         /\ ~(is_charging[i] /\ is_using[i])
         /\ is_charging[i] <=> col_power_flow[i] > DEAD_BAND
         /\ is_using[i] <=> col_power_flow[i] < 0 - DEAD_BAND
  /\ pc = "shown" =>
       LET flow == col_power_flow[current_time_index + 1]
       IN /\ battery_status_text = "Charging" <=> flow > DEAD_BAND
          /\ battery_status_text = "Discharging" <=> flow < 0 - DEAD_BAND
          /\ battery_status_text = "Idle" <=>
               (flow <= DEAD_BAND /\ flow >= 0 - DEAD_BAND)
\* The dashboard on a row whose battery takes in energy within the dead band.
C9_Witness ==
  /\ pc = "shown"
  /\ battery_status_text = "Idle"
  /\ col_power_flow[current_time_index + 1] > 0

====
